---- MODULE Spec2Model ----
(***************************************************************************)
(* Attendance ledger, enrollment and billing core of the LC management     *)
(* backend (app/models, app/crud/student.py, app/api/attendance.py,        *)
(* app/api/debt.py).                                                       *)
(*                                                                         *)
(* Money columns are SQL Float.  They are modelled as exact amounts in     *)
(* units of 1/MoneyScale of the currency unit, where MoneyScale is the     *)
(* least common multiple of the lesson_per_month values in use, so that    *)
(* cost / lesson_per_month is exact.  Binary rounding is not modelled.     *)
(***************************************************************************)
EXTENDS Integers, Sequences, FiniteSets, TLC

\* ------------------------------------------------------------------ bounds
MaxStudents == 1
MaxCourses == 1
MaxLedger == 2
MaxLessons == 2
MaxMoney == 20
MaxProgress == 2
MaxSessions == 2
MaxPayments == 2
MaxUsers == 2
SummaryStudents == 2
SummaryCourses == 2
SummaryPayments == 2
MaxBalance == 600

\* ------------------------------------------------------- HTTP status codes
HTTP_200_OK == 200
HTTP_201_CREATED == 201
HTTP_204_NO_CONTENT == 204
HTTP_400_BAD_REQUEST == 400
HTTP_403_FORBIDDEN == 403
HTTP_404_NOT_FOUND == 404
HTTP_409_CONFLICT == 409
HTTP_500_INTERNAL_SERVER_ERROR == 500
\* Python None for Optional[int] course ids
NoCourse == 0

\* ------------------------------------------------------------- input sets
\* Request ids range one past the largest id that can exist.
StudentIdInputs == 1..(MaxStudents + 1)
CourseIdInputs == 1..MaxCourses

\* CourseBase: lesson_per_month > 0, cost > 0
CourseKinds ==
    { [lesson_per_month |-> 8, cost |-> 150],
      [lesson_per_month |-> 4, cost |-> 40] }

Calendar ==
    << [year |-> 2025, month |-> 1, day |-> 31],
       [year |-> 2025, month |-> 2, day |-> 1] >>

Dates == { Calendar[i] : i \in DOMAIN Calendar }

Reasons == { "", "sick" }

\* StudentBase.num_lesson >= 0, total_money any float (currency units)
NumLessonInputs == { 0, 1 }
TotalMoneyInputs == { 0, 20 }

\* ----------------------------------------------------------------- helpers
Max(a, b) == IF a > b THEN a ELSE b

Abs(x) == IF x < 0 THEN -x ELSE x

RECURSIVE Gcd(_, _)
Gcd(a, b) == IF b = 0 THEN a ELSE Gcd(b, a % b)

RECURSIVE LcmOf(_)
LcmOf(S) ==
    IF S = {} THEN 1
    ELSE LET x == CHOOSE y \in S : TRUE
             r == LcmOf(S \ {x})
         IN (x * r) \div Gcd(x, r)

MoneyScale == LcmOf({ k.lesson_per_month : k \in CourseKinds })

\* a float amount of whole currency units
Money(units) == units * MoneyScale

InMoneyRange(m) == Abs(m) <= Money(MaxMoney)

\* str(date): "YYYY-MM-DD"
DateStr(d) == << d.year, d.month, d.day >>

\* ------------------------------------------------------------------- state
VARIABLES
    courses,          \* courses table: row id -> [lesson_per_month, cost]
    students,         \* students table: row id -> [num_lesson, total_money, attendance]
    student_courses,  \* association table: number of rows per (student, course)
    progress,         \* student_course_progress table, rows in id order
    payments,         \* payments table, rows in id order
    deleted_courses,  \* ids of the courses rows that were deleted
    users,            \* users table: row id -> [role, course_ids]
    schemaUnique,     \* whether the table carries UNIQUE(student_id, course_id)
    sessions,         \* in-flight enroll requests
    today,            \* date.today()
    last,             \* the last request that was answered, with its response
    probe,            \* observer of consecutive check-ins on one key
    calc              \* inputs and result of the billing-engine functions

vars == << courses, students, student_courses, progress, payments, deleted_courses,
           users, schemaUnique, sessions, today, last, probe, calc >>

dbVars == << courses, students, student_courses, progress, payments, deleted_courses,
            users >>

\* the tables that the student, attendance and enrollment requests do not write
otherTables == << payments, deleted_courses, users >>

StudentExists(sid) == sid \in DOMAIN students

CourseExists(cid) == cid \in DOMAIN courses /\ cid \notin deleted_courses

\* ------------------------------------------------ Student (app/models)
\* next(record for record in current_attendance if record["date"] == date_str
\*      and record.get("course_id") == course_id): index of the first match, 0 if none
FindRecord(attendance, date_str, course_id) ==
    LET hits == { i \in DOMAIN attendance :
                    /\ attendance[i].date = date_str
                    /\ attendance[i].course_id = course_id }
    IN IF hits = {} THEN 0 ELSE CHOOSE i \in hits : \A j \in hits : i <= j

\* course.cost / course.lesson_per_month
LessonCost(course) == (Money(course.cost)) \div course.lesson_per_month

\* faulty variant: the whole monthly cost is deducted for one lesson
DeductLessonCost_Monthly(student, course_id) ==
    IF course_id = NoCourse THEN student.total_money
    ELSE IF CourseExists(course_id) /\ courses[course_id].lesson_per_month > 0
         THEN student.total_money - Money(courses[course_id].cost)
         ELSE student.total_money

\* Student._deduct_lesson_cost: the student's total_money afterwards
DeductLessonCost(student, course_id) ==
    IF course_id = NoCourse THEN student.total_money
    ELSE IF CourseExists(course_id) /\ courses[course_id].lesson_per_month > 0
         THEN student.total_money - LessonCost(courses[course_id])
         ELSE student.total_money

\* faulty variant: the whole monthly cost is refunded for one lesson
RefundLessonCost_Monthly(student, course_id) ==
    IF course_id = NoCourse THEN student.total_money
    ELSE IF CourseExists(course_id) /\ courses[course_id].lesson_per_month > 0
         THEN student.total_money + Money(courses[course_id].cost)
         ELSE student.total_money

\* Student._refund_lesson_cost: the student's total_money afterwards
RefundLessonCost(student, course_id) ==
    IF course_id = NoCourse THEN student.total_money
    ELSE IF CourseExists(course_id) /\ courses[course_id].lesson_per_month > 0
         THEN student.total_money + LessonCost(courses[course_id])
         ELSE student.total_money

\* faulty variant: a present check-in counts a lesson whatever the event was before
AddAttendanceRecord_Recount(student, date, is_absent, reason, course_id) ==
    LET date_str == DateStr(date)
        i == FindRecord(student.attendance, date_str, course_id)
        event == [date |-> date_str, course_id |-> course_id,
                  isAbsent |-> is_absent, reason |-> reason]
        recorded == IF i # 0 THEN [student.attendance EXCEPT ![i] = event]
                    ELSE Append(student.attendance, event)
    IN IF ~is_absent
       THEN [num_lesson |-> student.num_lesson + 1,
             total_money |-> DeductLessonCost(student, course_id),
             attendance |-> recorded]
       ELSE IF i # 0 /\ ~student.attendance[i].isAbsent
       THEN [num_lesson |-> Max(0, student.num_lesson - 1),
             total_money |-> RefundLessonCost(student, course_id),
             attendance |-> recorded]
       ELSE [student EXCEPT !.attendance = recorded]

\* Student.add_attendance_record: the student row afterwards
AddAttendanceRecord(student, date, is_absent, reason, course_id) ==
    LET date_str == DateStr(date)
        i == FindRecord(student.attendance, date_str, course_id)
    IN IF i # 0
       THEN LET was_absent_before == student.attendance[i].isAbsent
                updated == [student.attendance EXCEPT
                               ![i] = [date |-> date_str, course_id |-> course_id,
                                       isAbsent |-> is_absent, reason |-> reason]]
            IN IF was_absent_before /\ ~is_absent
               THEN [num_lesson |-> student.num_lesson + 1,
                     total_money |-> DeductLessonCost(student, course_id),
                     attendance |-> updated]
               ELSE IF ~was_absent_before /\ is_absent
               THEN [num_lesson |-> Max(0, student.num_lesson - 1),
                     total_money |-> RefundLessonCost(student, course_id),
                     attendance |-> updated]
               ELSE [student EXCEPT !.attendance = updated]
       ELSE LET appended == Append(student.attendance,
                                   [date |-> date_str, course_id |-> course_id,
                                    isAbsent |-> is_absent, reason |-> reason])
            IN IF ~is_absent
               THEN [num_lesson |-> student.num_lesson + 1,
                     total_money |-> DeductLessonCost(student, course_id),
                     attendance |-> appended]
               ELSE [student EXCEPT !.attendance = appended]

\* the model keeps counters and ledgers inside its bounds
StudentInBounds(student) ==
    /\ student.num_lesson <= MaxLessons
    /\ InMoneyRange(student.total_money)
    /\ Len(student.attendance) <= MaxLedger

\* ---------------------------------------------------------------- requests
Response(op, status) == [op |-> op, status |-> status]

NoDate == << >>

NoProbe == [stage |-> "none"]

\* observer of check-ins: what the check-in just answered was ("new_present",
\* "new_absent", "to_absent", "to_present", "same"; "repeat" when it repeats the
\* check-in answered right before it; "round_trip" when it turns back to present
\* the event that check-in turned absent), the student row before it (before) and,
\* for a round trip, before the two check-ins (origin); readded tells that the
\* check-in records again, with the same is_absent and reason, the event that the
\* delete request answered right before it removed, and origin is then the student
\* row before that delete
ProbeAfterCheck(sid, date, is_absent, reason, course_id) ==
    LET before == students[sid]
        i == FindRecord(before.attendance, DateStr(date), course_id)
        same_key == /\ probe.stage # "none"
                    /\ probe.student_id = sid
                    /\ probe.date = date
                    /\ probe.course_id = course_id
        readded == /\ i = 0
                   /\ same_key
                   /\ probe.stage = "deleted"
                   /\ probe.isAbsent = is_absent
                   /\ probe.reason = reason
        stage ==
            IF i = 0 THEN (IF is_absent THEN "new_absent" ELSE "new_present")
            ELSE IF ~before.attendance[i].isAbsent /\ is_absent THEN "to_absent"
            ELSE IF before.attendance[i].isAbsent /\ ~is_absent
                 THEN (IF same_key /\ probe.stage = "to_absent"
                       THEN "round_trip" ELSE "to_present")
            ELSE IF same_key /\ probe.isAbsent = is_absent THEN "repeat"
            ELSE "same"
    IN [stage |-> stage, student_id |-> sid, date |-> date, course_id |-> course_id,
        isAbsent |-> is_absent, reason |-> reason, before |-> before,
        origin |-> IF stage = "round_trip" \/ readded THEN probe.before ELSE before,
        readded |-> readded]

IdleSession == [pc |-> "idle"]

IdleCalc == [done |-> FALSE, enrollment_date |-> Calendar[1], today |-> Calendar[1],
             months |-> 0, course |-> [lesson_per_month |-> 8, cost |-> 150],
             billed |-> FALSE, owed |-> 0, advanced |-> FALSE, prev_owed |-> 0]

NoRequest == Response("none", 0)

\* datetime.strptime(s, "%Y-%m-%d").date()
ParseDate(s) == [year |-> s[1], month |-> s[2], day |-> s[3]]

\* lists of AttendanceRecord in a StudentCreate / StudentUpdate body
AttendanceRecordInputs ==
    [date : Dates, course_id : 1..(MaxCourses + 1), isAbsent : BOOLEAN, reason : {""}]

RECURSIVE SeqsUpTo(_, _)
SeqsUpTo(S, n) ==
    IF n = 0 THEN { << >> }
    ELSE LET shorter == SeqsUpTo(S, n - 1)
         IN shorter \cup { Append(q, x) : q \in shorter, x \in S }

AttendanceListInputs == SeqsUpTo(AttendanceRecordInputs, MaxLedger)

\* the attendance_data comprehension of create_student / update_student
AttendanceData(records) ==
    [i \in DOMAIN records |->
        [date |-> DateStr(records[i].date), course_id |-> NoCourse,
         isAbsent |-> records[i].isAbsent, reason |-> records[i].reason]]

\* db.query(Course).filter(Course.id.in_(ids)).all() assigned to student.courses
CourseRows(ids) ==
    [c \in 1..MaxCourses |-> IF c \in ids /\ CourseExists(c) THEN 1 ELSE 0]

\* -------------------------------------------------------------------- Init
Init ==
    /\ courses = << >>
    /\ students = << >>
    /\ student_courses = [s \in 1..MaxStudents |-> [c \in 1..MaxCourses |-> 0]]
    /\ progress = << >>
    /\ payments = << >>
    /\ deleted_courses = {}
    /\ users = << >>
    /\ schemaUnique \in BOOLEAN
    /\ sessions = [t \in 1..MaxSessions |-> IdleSession]
    /\ today = Calendar[1]
    /\ last = NoRequest
    /\ probe = NoProbe
    /\ calc = IdleCalc

\* ----------------------------------------------------------------- courses
\* crud/course.py create_course
CreateCourse(kind) ==
    /\ Len(courses) < MaxCourses
    /\ courses' = Append(courses, kind)
    /\ last' = Response("create_course", HTTP_201_CREATED)
    /\ probe' = NoProbe
    /\ UNCHANGED << students, student_courses, progress, schemaUnique, otherTables, sessions,
                    today, calc >>

\* ---------------------------------------------------------------- students
\* crud/student.py create_student
CreateStudent(num_lesson, total_money, attendance, course_ids) ==
    LET sid == Len(students) + 1
    IN /\ Len(students) < MaxStudents
       /\ students' = Append(students,
                             [num_lesson |-> num_lesson,
                              total_money |-> Money(total_money),
                              attendance |-> AttendanceData(attendance)])
       /\ student_courses' = [student_courses EXCEPT ![sid] = CourseRows(course_ids)]
       /\ last' = Response("create_student", HTTP_201_CREATED)
       /\ probe' = NoProbe
       /\ UNCHANGED << courses, progress, schemaUnique, otherTables, sessions, today, calc >>

\* crud/student.py update_student; each field of update is a set, empty when unset
UpdateStudent(sid, update) ==
    /\ probe' = NoProbe
    /\ UNCHANGED << courses, progress, schemaUnique, otherTables, sessions, today, calc >>
    /\ IF ~StudentExists(sid)
       THEN /\ last' = Response("update_student", HTTP_404_NOT_FOUND)
            /\ UNCHANGED << students, student_courses >>
       ELSE /\ student_courses' =
                 IF update.courses = {} THEN student_courses
                 ELSE [student_courses EXCEPT
                          ![sid] = CourseRows(CHOOSE ids \in update.courses : TRUE)]
            /\ students' = [students EXCEPT ![sid] =
                 [num_lesson |->
                      IF update.num_lesson = {} THEN @.num_lesson
                      ELSE CHOOSE n \in update.num_lesson : TRUE,
                  total_money |->
                      IF update.total_money = {} THEN @.total_money
                      ELSE Money(CHOOSE m \in update.total_money : TRUE),
                  attendance |->
                      IF update.attendance = {} THEN @.attendance
                      ELSE AttendanceData(CHOOSE a \in update.attendance : TRUE)]]
            /\ last' = Response("update_student", HTTP_200_OK)

\* an Optional field of a request body: the empty set when it is not provided
Optional(S) == { {} } \cup { {x} : x \in S }

\* -------------------------------------------------------------- attendance
\* faulty variant: the handler does not look the student up first, so that the None of
\* crud add_attendance_record is answered "Failed to add attendance record"
CheckAttendance_NoLookup(sid, date, is_absent, reason, course_id) ==
    /\ UNCHANGED << courses, student_courses, progress, schemaUnique, otherTables, sessions,
                    today, calc >>
    /\ IF ~StudentExists(sid)
       THEN /\ last' = Response("check_attendance", HTTP_400_BAD_REQUEST)
            /\ probe' = NoProbe
            /\ UNCHANGED students
       ELSE LET updated == AddAttendanceRecord(students[sid], date, is_absent, reason,
                                               course_id)
            IN /\ StudentInBounds(updated)
               /\ students' = [students EXCEPT ![sid] = updated]
               /\ last' = Response("check_attendance", HTTP_200_OK)
               /\ probe' = ProbeAfterCheck(sid, date, is_absent, reason, course_id)

\* faulty variant: a check-in whose course is not found fails and records nothing
CheckAttendance_CourseRequired(sid, date, is_absent, reason, course_id) ==
    /\ UNCHANGED << courses, student_courses, progress, schemaUnique, otherTables, sessions,
                    today, calc >>
    /\ IF ~StudentExists(sid)
       THEN /\ last' = Response("check_attendance", HTTP_404_NOT_FOUND)
            /\ probe' = NoProbe
            /\ UNCHANGED students
       ELSE IF ~CourseExists(course_id)
       THEN /\ last' = Response("check_attendance", HTTP_500_INTERNAL_SERVER_ERROR)
            /\ probe' = ProbeAfterCheck(sid, date, is_absent, reason, course_id)
            /\ UNCHANGED students
       ELSE LET updated == AddAttendanceRecord(students[sid], date, is_absent, reason,
                                               course_id)
            IN /\ StudentInBounds(updated)
               /\ students' = [students EXCEPT ![sid] = updated]
               /\ last' = Response("check_attendance", HTTP_200_OK)
               /\ probe' = ProbeAfterCheck(sid, date, is_absent, reason, course_id)

\* api/attendance.py check_attendance -> crud add_attendance_record
CheckAttendance(sid, date, is_absent, reason, course_id) ==
    /\ UNCHANGED << courses, student_courses, progress, schemaUnique, otherTables, sessions,
                    today, calc >>
    /\ IF ~StudentExists(sid)
       THEN /\ last' = Response("check_attendance", HTTP_404_NOT_FOUND)
            /\ probe' = NoProbe
            /\ UNCHANGED students
       ELSE LET updated == AddAttendanceRecord(students[sid], date, is_absent, reason,
                                               course_id)
            IN /\ StudentInBounds(updated)
               /\ students' = [students EXCEPT ![sid] = updated]
               /\ last' = Response("check_attendance", HTTP_200_OK)
               /\ probe' = ProbeAfterCheck(sid, date, is_absent, reason, course_id)

\* crud/student.py update_attendance_record: the ledger afterwards; is_absent and
\* reason are sets, empty when the field is not provided
UpdateAttendanceRecord(attendance, date, course_id, is_absent, reason) ==
    LET i == FindRecord(attendance, DateStr(date), course_id)
    IN [attendance EXCEPT ![i] =
           [@ EXCEPT !.isAbsent = IF is_absent = {} THEN @
                                  ELSE CHOOSE b \in is_absent : TRUE,
                     !.reason = IF reason = {} THEN @
                                ELSE CHOOSE r \in reason : TRUE]]

\* faulty variant: the update goes through Student.add_attendance_record, which
\* recounts the lesson and the balance when is_absent flips
UpdateAttendance_Recounted(sid, date, course_id, is_absent, reason) ==
    /\ probe' = NoProbe
    /\ UNCHANGED << courses, student_courses, progress, schemaUnique, otherTables, sessions,
                    today, calc >>
    /\ IF \/ ~StudentExists(sid)
          \/ FindRecord(students[sid].attendance, DateStr(date), course_id) = 0
       THEN /\ last' = Response("update_attendance", HTTP_404_NOT_FOUND)
            /\ UNCHANGED students
       ELSE LET event == UpdateAttendanceRecord(students[sid].attendance, date,
                                                course_id, is_absent, reason)
                             [FindRecord(students[sid].attendance, DateStr(date),
                                         course_id)]
                updated == AddAttendanceRecord(students[sid], date, event.isAbsent,
                                               event.reason, course_id)
            IN /\ StudentInBounds(updated)
               /\ students' = [students EXCEPT ![sid] = updated]
               /\ last' = Response("update_attendance", HTTP_200_OK)

\* api/attendance.py update_student_attendance
UpdateAttendance(sid, date, course_id, is_absent, reason) ==
    /\ probe' = NoProbe
    /\ UNCHANGED << courses, student_courses, progress, schemaUnique, otherTables, sessions,
                    today, calc >>
    /\ IF \/ ~StudentExists(sid)
          \/ FindRecord(students[sid].attendance, DateStr(date), course_id) = 0
       THEN /\ last' = Response("update_attendance", HTTP_404_NOT_FOUND)
            /\ UNCHANGED students
       ELSE /\ students' = [students EXCEPT ![sid].attendance =
                               UpdateAttendanceRecord(@, date, course_id, is_absent,
                                                      reason)]
            /\ last' = Response("update_attendance", HTTP_200_OK)

\* faulty variant: every event of the date is removed, whatever its course
DeleteAttendanceRecord_ByDate(attendance, date, course_id) ==
    SelectSeq(attendance, LAMBDA record : record.date # DateStr(date))

\* the list comprehension of crud/student.py delete_attendance_record
DeleteAttendanceRecord(attendance, date, course_id) ==
    SelectSeq(attendance,
              LAMBDA record : ~(/\ record.date = DateStr(date)
                                /\ record.course_id = course_id))

\* observer of deletes: the event a delete request removed, when it was the only
\* event of its key, and the student row before the delete
ProbeAfterDelete(sid, date, course_id) ==
    LET before == students[sid]
        hits == { i \in DOMAIN before.attendance :
                    /\ before.attendance[i].date = DateStr(date)
                    /\ before.attendance[i].course_id = course_id }
    IN IF Cardinality(hits) # 1 THEN NoProbe
       ELSE LET event == before.attendance[CHOOSE i \in hits : TRUE]
            IN [stage |-> "deleted", student_id |-> sid, date |-> date,
                course_id |-> course_id, isAbsent |-> event.isAbsent,
                reason |-> event.reason, before |-> before, origin |-> before,
                readded |-> FALSE]

\* faulty variant: the lessons of the removed present events are taken back
DeleteAttendance_Recounted(sid, date, course_id) ==
    /\ UNCHANGED << courses, student_courses, progress, schemaUnique, otherTables, sessions,
                    today, calc >>
    /\ IF \/ ~StudentExists(sid)
          \/ Len(DeleteAttendanceRecord(students[sid].attendance, date, course_id))
                 >= Len(students[sid].attendance)
       THEN /\ last' = Response("delete_attendance", HTTP_404_NOT_FOUND)
            /\ probe' = NoProbe
            /\ UNCHANGED students
       ELSE LET kept == DeleteAttendanceRecord(students[sid].attendance, date, course_id)
                removed == Cardinality({ i \in DOMAIN students[sid].attendance :
                                           ~students[sid].attendance[i].isAbsent })
                             - Cardinality({ i \in DOMAIN kept : ~kept[i].isAbsent })
            IN /\ students' = [students EXCEPT
                                  ![sid].attendance = kept,
                                  ![sid].num_lesson = Max(0, @ - removed)]
               /\ last' = Response("delete_attendance", HTTP_200_OK)
               /\ probe' = ProbeAfterDelete(sid, date, course_id)

\* api/attendance.py delete_student_attendance
DeleteAttendance(sid, date, course_id) ==
    /\ UNCHANGED << courses, student_courses, progress, schemaUnique, otherTables, sessions,
                    today, calc >>
    /\ IF \/ ~StudentExists(sid)
          \/ Len(DeleteAttendanceRecord(students[sid].attendance, date, course_id))
                 >= Len(students[sid].attendance)
       THEN /\ last' = Response("delete_attendance", HTTP_404_NOT_FOUND)
            /\ probe' = NoProbe
            /\ UNCHANGED students
       ELSE /\ students' = [students EXCEPT ![sid].attendance =
                               DeleteAttendanceRecord(@, date, course_id)]
            /\ last' = Response("delete_attendance", HTTP_200_OK)
            /\ probe' = ProbeAfterDelete(sid, date, course_id)

\* -------------------------------------------------------------- enrollment
\* db.query(StudentCourseProgress).filter(student_id, course_id)
Enrollments(sid, cid) ==
    { i \in DOMAIN progress :
        progress[i].student_id = sid /\ progress[i].course_id = cid }

ActiveSessions == { t \in DOMAIN sessions : sessions[t].pc # "idle" }

\* api/debt.py enroll_student_in_course, lines 81-103: parse the date, look up the
\* student, the course and an existing enrollment
EnrollBegin(t, sid, cid, enrollment_date) ==
    LET enrollment_date_obj ==
            IF enrollment_date # NoDate THEN ParseDate(enrollment_date) ELSE today
        answer(status) ==
            /\ last' = Response("enroll_student_in_course", status)
            /\ UNCHANGED sessions
    IN /\ sessions[t].pc = "idle"
       /\ \A u \in DOMAIN sessions : u < t => sessions[u].pc # "idle"
       /\ Len(progress) + Cardinality(ActiveSessions) < MaxProgress
       /\ probe' = NoProbe
       /\ UNCHANGED << dbVars, schemaUnique, today, calc >>
       /\ IF ~StudentExists(sid) THEN answer(HTTP_404_NOT_FOUND)
          ELSE IF ~CourseExists(cid) THEN answer(HTTP_404_NOT_FOUND)
          ELSE IF Enrollments(sid, cid) # {} THEN answer(HTTP_400_BAD_REQUEST)
          ELSE /\ sessions' = [sessions EXCEPT ![t] =
                      [pc |-> "checked", student_id |-> sid, course_id |-> cid,
                       enrollment_date |-> enrollment_date_obj, add_course |-> FALSE]]
               /\ last' = NoRequest

\* lines 106-116: stage the progress row, load student.courses and stage the
\* association row when the course is not in it
EnrollStage(t) ==
    LET ses == sessions[t]
    IN /\ ses.pc = "checked"
       /\ sessions' = [sessions EXCEPT ![t] =
              [ses EXCEPT !.pc = "staged",
                          !.add_course =
                              student_courses[ses.student_id][ses.course_id] = 0]]
       /\ last' = NoRequest
       /\ probe' = NoProbe
       /\ UNCHANGED << dbVars, schemaUnique, today, calc >>

\* the constraints the database checks when the session flushes its rows:
\* PRIMARY KEY (student_id, course_id) of student_courses, and
\* UNIQUE(student_id, course_id) of student_course_progress where the table has it
FlushFails(ses) ==
    \/ ses.add_course /\ student_courses[ses.student_id][ses.course_id] > 0
    \/ schemaUnique /\ Enrollments(ses.student_id, ses.course_id) # {}

\* faulty variant: the enrollment starts with one lesson attended
NewProgress_OneLesson(ses) ==
    [student_id |-> ses.student_id, course_id |-> ses.course_id,
     enrollment_date |-> ses.enrollment_date, lessons_attended |-> 1]

\* the row enroll_student_in_course adds
NewProgress(ses) ==
    [student_id |-> ses.student_id, course_id |-> ses.course_id,
     enrollment_date |-> ses.enrollment_date, lessons_attended |-> 0]

\* line 118: db.commit()
EnrollCommit(t) ==
    LET ses == sessions[t]
    IN /\ ses.pc = "staged"
       /\ sessions' = [sessions EXCEPT ![t] = IdleSession]
       /\ probe' = NoProbe
       /\ UNCHANGED << courses, students, schemaUnique, otherTables, today, calc >>
       /\ IF FlushFails(ses)
          THEN /\ last' = Response("enroll_student_in_course",
                                   HTTP_500_INTERNAL_SERVER_ERROR)
               /\ UNCHANGED << progress, student_courses >>
          ELSE /\ progress' = Append(progress, NewProgress(ses))
               /\ student_courses' =
                      IF ses.add_course
                      THEN [student_courses EXCEPT
                               ![ses.student_id][ses.course_id] = @ + 1]
                      ELSE student_courses
               /\ last' = Response("enroll_student_in_course", HTTP_200_OK)

\* ------------------------------------------------ check-ins that interleave
\* Each request has its own database session. check_attendance loads the student
\* row (get_student), crud add_attendance_record finds the same object in the
\* session and mutates it in memory; db.commit() then sends one UPDATE for the row.
\* Nothing compares the row with what was loaded.

\* observer of commits: a commit of a request that loaded the row before another
\* request's commit changed it
ProbeAfterCommit(ses, written) ==
    IF ses.stale
    THEN [stage |-> "stale_commit", student_id |-> ses.student_id,
          loaded |-> ses.loaded, computed |-> ses.row, before |-> students[ses.student_id],
          written |-> written]
    ELSE NoProbe

\* the row after the UPDATE of the session's flush: the unit of work sets the columns
\* whose attribute holds another value than the one loaded, and leaves the others
\* as they are stored
FlushedRow(stored, loaded, row) ==
    [num_lesson |-> IF row.num_lesson # loaded.num_lesson
                    THEN row.num_lesson ELSE stored.num_lesson,
     total_money |-> IF row.total_money # loaded.total_money
                     THEN row.total_money ELSE stored.total_money,
     attendance |-> IF row.attendance # loaded.attendance
                    THEN row.attendance ELSE stored.attendance]

\* api/attendance.py check_attendance lines 22-38 and crud add_attendance_record
\* lines 111-115: load the student and mutate the loaded object
CheckLoad(t, sid, date, is_absent, reason, course_id) ==
    /\ sessions[t].pc = "idle"
    /\ \A u \in DOMAIN sessions : u < t => sessions[u].pc # "idle"
    /\ probe' = NoProbe
    /\ UNCHANGED << dbVars, schemaUnique, today, calc >>
    /\ IF ~StudentExists(sid)
       THEN /\ last' = Response("check_attendance", HTTP_404_NOT_FOUND)
            /\ UNCHANGED sessions
       ELSE LET row == AddAttendanceRecord(students[sid], date, is_absent, reason,
                                           course_id)
            IN /\ StudentInBounds(row)
               /\ sessions' = [sessions EXCEPT ![t] =
                      [pc |-> "mutated", student_id |-> sid, loaded |-> students[sid],
                       row |-> row, stale |-> FALSE]]
               /\ last' = NoRequest

\* crud add_attendance_record line 116: db.commit()
CheckCommit(t) ==
    LET ses == sessions[t]
        written == FlushedRow(students[ses.student_id], ses.loaded, ses.row)
    IN /\ ses.pc = "mutated"
       /\ students' = [students EXCEPT ![ses.student_id] = written]
       /\ sessions' = [u \in DOMAIN sessions |->
                          IF u = t THEN IdleSession
                          ELSE IF /\ sessions[u].pc = "mutated"
                                  /\ sessions[u].student_id = ses.student_id
                                  /\ written # students[ses.student_id]
                               THEN [sessions[u] EXCEPT !.stale = TRUE]
                               ELSE sessions[u]]
       /\ last' = Response("check_attendance", HTTP_200_OK)
       /\ probe' = ProbeAfterCommit(ses, written)
       /\ UNCHANGED << courses, student_courses, progress, schemaUnique, otherTables,
                       today, calc >>

\* --------------------------------------------- StudentCourseProgress (app/models)
\* faulty variant: the month difference is not clamped
CalculateMonthsEnrolled_Unclamped(enrollment_date, today_) ==
    (today_.year - enrollment_date.year) * 12 + (today_.month - enrollment_date.month)

\* faulty variant: every calendar month the enrollment touches is counted
CalculateMonthsEnrolled_Inclusive(enrollment_date, today_) ==
    Max(1, (today_.year - enrollment_date.year) * 12
               + (today_.month - enrollment_date.month) + 1)

\* StudentCourseProgress.calculate_months_enrolled, with today_ = date.today()
CalculateMonthsEnrolled(enrollment_date, today_) ==
    LET months == (today_.year - enrollment_date.year) * 12
                      + (today_.month - enrollment_date.month)
    IN Max(1, months)

\* faulty variant: the price of one lesson is charged per month
CalculateOwedAmount_PerLesson(course, enrollment_date, today_) ==
    LessonCost(course) * CalculateMonthsEnrolled(enrollment_date, today_)

\* StudentCourseProgress.calculate_owed_amount: self.course.cost * months_enrolled
CalculateOwedAmount(course, enrollment_date, today_) ==
    Money(course.cost) * CalculateMonthsEnrolled(enrollment_date, today_)

\* -------------------------------------------------------------------- debt
\* sum(...) over a list of amounts
RECURSIVE SumSeq(_)
SumSeq(amounts) ==
    IF amounts = << >> THEN 0 ELSE Head(amounts) + SumSeq(Tail(amounts))

\* db.query(StudentCourseProgress).filter(student_id == student_id).all()
ProgressOf(sid) == SelectSeq(progress, LAMBDA row : row.student_id = sid)

\* student.payments
PaymentsOf(sid) == SelectSeq(payments, LAMBDA row : row.student_id = sid)

\* the response body of calculate_monthly_debt from the two totals
DebtBody(total_monthly_owed, total_paid) ==
    LET balance == total_paid - total_monthly_owed
    IN [total_monthly_owed |-> total_monthly_owed,
        total_paid |-> total_paid,
        balance |-> balance,
        owes_money |-> balance < 0,
        debt_amount |-> IF balance < 0 THEN Abs(balance) ELSE 0,
        overpaid_amount |-> IF balance > 0 THEN balance ELSE 0]

\* faulty variant: total_paid is read from the student's running counter
DebtSummary_FromCounter(sid) ==
    LET rows == ProgressOf(sid)
        owed == [i \in DOMAIN rows |->
                    Money(courses[rows[i].course_id].cost)
                        * CalculateMonthsEnrolled(rows[i].enrollment_date, today)]
    IN DebtBody(SumSeq(owed), students[sid].total_money)

\* api/debt.py calculate_monthly_debt, lines 32-69
DebtSummary(sid) ==
    LET rows == ProgressOf(sid)
        owed == [i \in DOMAIN rows |->
                    Money(courses[rows[i].course_id].cost)
                        * CalculateMonthsEnrolled(rows[i].enrollment_date, today)]
        paid == [i \in DOMAIN PaymentsOf(sid) |-> PaymentsOf(sid)[i].money]
    IN DebtBody(SumSeq(owed), SumSeq(paid))

\* api/debt.py calculate_monthly_debt
CalculateMonthlyDebt(sid) ==
    /\ last' = IF ~StudentExists(sid)
               THEN Response("calculate_monthly_debt", HTTP_404_NOT_FOUND)
               ELSE [op |-> "calculate_monthly_debt", status |-> HTTP_200_OK,
                     student_id |-> sid, body |-> DebtSummary(sid)]
    /\ probe' = NoProbe
    /\ UNCHANGED << dbVars, schemaUnique, sessions, today, calc >>

\* the amounts of a list of payment rows
Moneys(rows) == [i \in DOMAIN rows |-> rows[i].money]

\* the inner loop of get_monthly_debt_summary: the sum of calculate_owed_amount()
\* over the student's progress rows
StudentMonthlyOwed(sid) ==
    LET rows == ProgressOf(sid)
    IN SumSeq([i \in DOMAIN rows |->
                  CalculateOwedAmount(courses[rows[i].course_id],
                                      rows[i].enrollment_date, today)])

\* one entry of the summary list of get_monthly_debt_summary
MonthlySummaryEntry(sid) ==
    LET student_monthly_owed == StudentMonthlyOwed(sid)
        total_paid == SumSeq(Moneys(PaymentsOf(sid)))
        balance == total_paid - student_monthly_owed
    IN [student_id |-> sid, monthly_owed |-> student_monthly_owed,
        total_paid |-> total_paid,
        debt |-> IF balance < 0 THEN Abs(balance) ELSE 0,
        balance |-> balance]

\* faulty variant: the total is the debt that is left after netting all balances
MonthlyDebtSummary_Netted ==
    LET summary == [sid \in DOMAIN students |-> MonthlySummaryEntry(sid)]
        net == SumSeq([i \in DOMAIN summary |-> summary[i].balance])
    IN [students |-> summary,
        total_debt_all_students |-> IF net < 0 THEN Abs(net) ELSE 0,
        students_with_debt |->
            Cardinality({ i \in DOMAIN summary : summary[i].debt > 0 })]

\* the response body of get_monthly_debt_summary
MonthlyDebtSummary ==
    LET summary == [sid \in DOMAIN students |-> MonthlySummaryEntry(sid)]
    IN [students |-> summary,
        total_debt_all_students |-> SumSeq([i \in DOMAIN summary |-> summary[i].debt]),
        students_with_debt |->
            Cardinality({ i \in DOMAIN summary : summary[i].debt > 0 })]

\* api/debt.py get_monthly_debt_summary
GetMonthlyDebtSummary ==
    /\ last' = [op |-> "get_monthly_debt_summary", status |-> HTTP_200_OK,
                body |-> MonthlyDebtSummary]
    /\ probe' = NoProbe
    /\ UNCHANGED << dbVars, schemaUnique, sessions, today, calc >>

\* faulty variant: all the payments of the student count for the course
CoursePayments_AllCourses(sid, cid) == SumSeq(Moneys(PaymentsOf(sid)))

\* sum(payment.money for payment in student.payments if payment.course_id == course_id)
CoursePayments(sid, cid) ==
    SumSeq(Moneys(SelectSeq(PaymentsOf(sid), LAMBDA row : row.course_id = cid)))

\* the response body of get_course_students_debt
CourseStudentsDebt(cid) ==
    LET progress_records == SelectSeq(progress, LAMBDA row : row.course_id = cid)
        entry(row) ==
            LET course_owed == CalculateOwedAmount(courses[row.course_id],
                                                   row.enrollment_date, today)
                course_payments == CoursePayments(row.student_id, cid)
                balance == course_payments - course_owed
            IN [student_id |-> row.student_id, course_owed |-> course_owed,
                course_payments |-> course_payments, balance |-> balance,
                debt |-> IF balance < 0 THEN Abs(balance) ELSE 0]
        students_debt == [i \in DOMAIN progress_records |-> entry(progress_records[i])]
    IN [course_id |-> cid, students |-> students_debt,
        total_course_debt |->
            SumSeq([i \in DOMAIN students_debt |-> students_debt[i].debt]),
        students_with_debt |->
            Cardinality({ i \in DOMAIN students_debt : students_debt[i].debt > 0 })]

\* api/debt.py get_course_students_debt
GetCourseStudentsDebt(cid) ==
    /\ last' = IF ~CourseExists(cid)
               THEN Response("get_course_students_debt", HTTP_404_NOT_FOUND)
               ELSE [op |-> "get_course_students_debt", status |-> HTTP_200_OK,
                     body |-> CourseStudentsDebt(cid)]
    /\ probe' = NoProbe
    /\ UNCHANGED << dbVars, schemaUnique, sessions, today, calc >>

\* faulty variant: the payment is stored but the running counter is not updated
RecordPayment_NoCounter(sid, cid, amount) ==
    /\ Len(payments) < MaxPayments
    /\ probe' = NoProbe
    /\ UNCHANGED << courses, students, student_courses, progress, deleted_courses, users,
                    schemaUnique, sessions, today, calc >>
    /\ IF ~StudentExists(sid) \/ ~CourseExists(cid)
       THEN /\ last' = Response("record_payment", HTTP_404_NOT_FOUND)
            /\ UNCHANGED payments
       ELSE /\ payments' = Append(payments,
                                  [student_id |-> sid, course_id |-> cid,
                                   money |-> Money(amount), date |-> today])
            /\ last' = Response("record_payment", HTTP_200_OK)

\* api/debt.py record_payment
RecordPayment(sid, cid, amount) ==
    /\ Len(payments) < MaxPayments
    /\ probe' = NoProbe
    /\ UNCHANGED << courses, student_courses, progress, deleted_courses, users,
                    schemaUnique, sessions, today, calc >>
    /\ IF ~StudentExists(sid)
       THEN /\ last' = Response("record_payment", HTTP_404_NOT_FOUND)
            /\ UNCHANGED << payments, students >>
       ELSE IF ~CourseExists(cid)
       THEN /\ last' = Response("record_payment", HTTP_404_NOT_FOUND)
            /\ UNCHANGED << payments, students >>
       ELSE /\ payments' = Append(payments,
                                  [student_id |-> sid, course_id |-> cid,
                                   money |-> Money(amount), date |-> today])
            /\ students' = [students EXCEPT ![sid].total_money = @ + Money(amount)]
            /\ last' = Response("record_payment", HTTP_200_OK)

\* api/payments.py create_new_payment -> crud/payment.py create_payment: a Payment
\* row is added and nothing else is written. For an id that matches no student or
\* no course the INSERT either fails on the foreign key (unhandled, answered 500) or,
\* where the database does not enforce foreign keys, adds the row.
CreatePayment(sid, cid, money) ==
    /\ Len(payments) < MaxPayments
    /\ probe' = NoProbe
    /\ UNCHANGED << courses, students, student_courses, progress, deleted_courses, users,
                    schemaUnique, sessions, today, calc >>
    /\ \/ /\ payments' = Append(payments,
                                [student_id |-> sid, course_id |-> cid,
                                 money |-> Money(money), date |-> today])
          /\ last' = Response("create_payment", HTTP_201_CREATED)
       \/ /\ ~StudentExists(sid) \/ ~CourseExists(cid)
          /\ last' = Response("create_payment", HTTP_500_INTERNAL_SERVER_ERROR)
          /\ UNCHANGED payments

\* api/payments.py update_existing_payment -> crud/payment.py update_payment; money
\* is a set, empty when the body does not set the field
UpdatePayment(payment_id, money) ==
    /\ probe' = NoProbe
    /\ UNCHANGED << courses, students, student_courses, progress, deleted_courses, users,
                    schemaUnique, sessions, today, calc >>
    /\ IF payment_id \notin DOMAIN payments
       THEN /\ last' = Response("update_payment", HTTP_404_NOT_FOUND)
            /\ UNCHANGED payments
       ELSE /\ payments' = [payments EXCEPT ![payment_id].money =
                               IF money = {} THEN @
                               ELSE Money(CHOOSE m \in money : TRUE)]
            /\ last' = Response("update_payment", HTTP_200_OK)

\* api/payments.py delete_existing_payment -> crud/payment.py delete_payment
DeletePayment(payment_id) ==
    /\ probe' = NoProbe
    /\ UNCHANGED << courses, students, student_courses, progress, deleted_courses, users,
                    schemaUnique, sessions, today, calc >>
    /\ IF payment_id \notin DOMAIN payments
       THEN /\ last' = Response("delete_payment", HTTP_404_NOT_FOUND)
            /\ UNCHANGED payments
       ELSE /\ payments' = SubSeq(payments, 1, payment_id - 1)
                               \o SubSeq(payments, payment_id + 1, Len(payments))
            /\ last' = Response("delete_payment", HTTP_204_NO_CONTENT)

\* faulty variant: only the enrollment's count is updated
AddLessonsToCourse_EnrollmentOnly(sid, cid, lessons_count) ==
    /\ probe' = NoProbe
    /\ UNCHANGED << courses, students, student_courses, payments, deleted_courses, users,
                    schemaUnique, sessions, today, calc >>
    /\ IF Enrollments(sid, cid) = {}
       THEN /\ last' = Response("add_lessons_to_course", HTTP_404_NOT_FOUND)
            /\ UNCHANGED progress
       ELSE LET first == CHOOSE i \in Enrollments(sid, cid) :
                             \A j \in Enrollments(sid, cid) : i <= j
                new_lesson_count == progress[first].lessons_attended + lessons_count
            IN /\ Abs(new_lesson_count) <= MaxLessons
               /\ progress' = [i \in DOMAIN progress |->
                                  IF i \in Enrollments(sid, cid)
                                  THEN [progress[i] EXCEPT
                                           !.lessons_attended = new_lesson_count]
                                  ELSE progress[i]]
               /\ last' = Response("add_lessons_to_course", HTTP_200_OK)

\* api/debt.py add_lessons_to_course
AddLessonsToCourse(sid, cid, lessons_count) ==
    /\ probe' = NoProbe
    /\ UNCHANGED << courses, student_courses, payments, deleted_courses, users,
                    schemaUnique, sessions, today, calc >>
    /\ IF Enrollments(sid, cid) = {}
       THEN /\ last' = Response("add_lessons_to_course", HTTP_404_NOT_FOUND)
            /\ UNCHANGED << progress, students >>
       ELSE LET first == CHOOSE i \in Enrollments(sid, cid) :
                             \A j \in Enrollments(sid, cid) : i <= j
                new_lesson_count == progress[first].lessons_attended + lessons_count
            IN /\ Abs(new_lesson_count) <= MaxLessons
               /\ progress' = [i \in DOMAIN progress |->
                                  IF i \in Enrollments(sid, cid)
                                  THEN [progress[i] EXCEPT
                                           !.lessons_attended = new_lesson_count]
                                  ELSE progress[i]]
               /\ IF StudentExists(sid)
                  THEN /\ Abs(students[sid].num_lesson + lessons_count) <= MaxLessons
                       /\ students' = [students EXCEPT
                                          ![sid].num_lesson = @ + lessons_count]
                  ELSE UNCHANGED students
               /\ last' = Response("add_lessons_to_course", HTTP_200_OK)

\* faulty variant: the rows that reference the course are kept
WithoutCourse_Kept(rows, cid) == rows

\* cascade "all, delete-orphan" of Course.payments and Course.student_progress: the
\* rows of a table that are left when the course is deleted
WithoutCourse(rows, cid) == SelectSeq(rows, LAMBDA row : row.course_id # cid)

\* api/courses.py delete_existing_course -> crud/course.py delete_course; the
\* HTTPException raised for a missing course inside the try block is caught by the
\* handler's own "except Exception" and answered 500
DeleteCourse(cid) ==
    /\ probe' = NoProbe
    /\ UNCHANGED << courses, students, schemaUnique, sessions, today, calc >>
    /\ IF ~CourseExists(cid)
       THEN /\ last' = Response("delete_course", HTTP_500_INTERNAL_SERVER_ERROR)
            /\ UNCHANGED << student_courses, progress, payments, deleted_courses,
                            users >>
       ELSE /\ deleted_courses' = deleted_courses \cup {cid}
            /\ progress' = WithoutCourse(progress, cid)
            /\ payments' = WithoutCourse(payments, cid)
            /\ student_courses' = [s \in DOMAIN student_courses |->
                                      [student_courses[s] EXCEPT ![cid] = 0]]
            /\ users' = [u \in DOMAIN users |->
                            [users[u] EXCEPT !.courses = @ \ {cid}]]
            /\ last' = Response("delete_course", HTTP_204_NO_CONTENT)

\* ------------------------------------------------------------------- users
\* UserRole
Roles == { "teacher", "admin", "superadmin" }

AdminRoles == { "admin", "superadmin" }

\* course_ids lists of a UserCreate / UserUpdate body
CourseIdLists == { << >>, <<1>>, <<MaxCourses + 1>>, <<1, MaxCourses + 1>> }

UserExists(uid) == uid \in DOMAIN users

\* UserBase.validate_course_ids
UserBaseValidateCourseIds(role, v) == IF role \in AdminRoles THEN << >> ELSE v

\* UserUpdate.validate_course_ids; role is the set holding the body's role, if any
UserUpdateValidateCourseIds(role, v) ==
    IF role # {} /\ role \subseteq AdminRoles THEN << >> ELSE v

\* sync_user_courses: the user's rows of teacher_courses afterwards
SyncUserCourses(role, course_ids) ==
    IF course_ids # << >> /\ role = "teacher"
    THEN { course_ids[i] : i \in DOMAIN course_ids } \cap { c \in DOMAIN courses : CourseExists(c) }
    ELSE {}

\* crud/user.py create_user
CreateUser(role, course_ids) ==
    LET validated == UserBaseValidateCourseIds(role, course_ids)
        final_course_ids == IF role = "teacher" /\ validated # << >> THEN validated
                            ELSE << >>
    IN /\ Len(users) < MaxUsers
       /\ users' = Append(users, [role |-> role, course_ids |-> final_course_ids,
                                  courses |-> SyncUserCourses(role, final_course_ids)])
       /\ last' = Response("create_user", HTTP_201_CREATED)
       /\ probe' = NoProbe
       /\ UNCHANGED << courses, students, student_courses, progress, payments,
                       deleted_courses, schemaUnique, sessions, today, calc >>

\* faulty variant: a role change keeps the course_ids, and course_ids are stored
\* whatever the role
UpdatedUser_AnyRole(user, role, course_ids) ==
    LET new_role == IF role = {} THEN user.role ELSE CHOOSE r \in role : TRUE
    IN IF course_ids = {} THEN [user EXCEPT !.role = new_role]
       ELSE LET v == CHOOSE l \in course_ids : TRUE
            IN [role |-> new_role, course_ids |-> v,
                courses |-> SyncUserCourses(new_role, v)]

\* crud/user.py update_user, lines 74-95: the user row afterwards; role and
\* course_ids are sets, empty when the body does not set the field
UpdatedUser(user, role, course_ids) ==
    LET new_role == IF role = {} THEN user.role ELSE CHOOSE r \in role : TRUE
        after_role == IF role # {} /\ new_role \in AdminRoles
                      THEN [user EXCEPT !.role = new_role, !.course_ids = << >>]
                      ELSE [user EXCEPT !.role = new_role]
    IN IF course_ids = {} THEN after_role
       ELSE LET v == UserUpdateValidateCourseIds(role, CHOOSE l \in course_ids : TRUE)
                final_course_ids == IF new_role \in AdminRoles THEN << >>
                                    ELSE IF new_role = "teacher" THEN v
                                    ELSE << >>
            IN [role |-> new_role, course_ids |-> final_course_ids,
                courses |-> SyncUserCourses(new_role, final_course_ids)]

\* api/users.py update_existing_user -> crud/user.py update_user
UpdateUser(uid, role, course_ids) ==
    /\ probe' = NoProbe
    /\ UNCHANGED << courses, students, student_courses, progress, payments,
                    deleted_courses, schemaUnique, sessions, today, calc >>
    /\ IF ~UserExists(uid)
       THEN /\ last' = Response("update_user", HTTP_404_NOT_FOUND)
            /\ UNCHANGED users
       ELSE /\ users' = [users EXCEPT ![uid] = UpdatedUser(@, role, course_ids)]
            /\ last' = Response("update_user", HTTP_200_OK)

\* ------------------------------------------------------ requests of a user
\* The caller is an authenticated user; get_current_teacher_or_admin lets the three
\* roles pass.

\* [course.id for course in student.courses]
StudentCourseIds(sid) == { c \in DOMAIN student_courses[sid] : student_courses[sid][c] > 0 }

\* current_user.get_course_ids()
TeacherCourseIds(uid) == { users[uid].course_ids[i] : i \in DOMAIN users[uid].course_ids }

\* api/attendance.py check_attendance, called by user uid
CheckAttendanceAs(uid, sid, date, is_absent, reason, course_id) ==
    /\ UserExists(uid)
    /\ CheckAttendance(sid, date, is_absent, reason, course_id)

\* api/attendance.py get_student_attendance, called by user uid
GetStudentAttendanceAs(uid, sid) ==
    /\ UserExists(uid)
    /\ last' = IF ~StudentExists(sid)
               THEN Response("get_student_attendance", HTTP_404_NOT_FOUND)
               ELSE [op |-> "get_student_attendance", status |-> HTTP_200_OK,
                     body |-> students[sid].attendance]
    /\ probe' = NoProbe
    /\ UNCHANGED << dbVars, schemaUnique, sessions, today, calc >>

\* api/students.py read_student, called by user uid
ReadStudentAs(uid, sid) ==
    /\ UserExists(uid)
    /\ last' = IF ~StudentExists(sid)
               THEN Response("read_student", HTTP_404_NOT_FOUND)
               ELSE IF /\ users[uid].role = "teacher"
                       /\ StudentCourseIds(sid) \cap TeacherCourseIds(uid) = {}
               THEN Response("read_student", HTTP_403_FORBIDDEN)
               ELSE [op |-> "read_student", status |-> HTTP_200_OK,
                     body |-> students[sid]]
    /\ probe' = NoProbe
    /\ UNCHANGED << dbVars, schemaUnique, sessions, today, calc >>

\* ------------------------------------------------------------------- clock
\* date.today() moves on
Tick ==
    /\ \E i \in 1..(Len(Calendar) - 1) : today = Calendar[i] /\ today' = Calendar[i + 1]
    /\ last' = NoRequest
    /\ probe' = NoProbe
    /\ UNCHANGED << dbVars, schemaUnique, sessions, calc >>

\* ----------------------------------------------------------- specification
\* a StudentUpdate body that sets one field
OneField(field, values) ==
    { [[courses |-> {}, num_lesson |-> {}, total_money |-> {}, attendance |-> {}]
          EXCEPT ![field] = {v}] : v \in values }

LedgerUpdates ==
    OneField("num_lesson", NumLessonInputs)
        \cup OneField("total_money", TotalMoneyInputs)
        \cup OneField("attendance", AttendanceListInputs)

CourseUpdates == OneField("courses", SUBSET CourseIdInputs)

EnrollmentDateInputs == {NoDate} \cup { DateStr(d) : d \in Dates }

CreateCourseRequest == \E kind \in CourseKinds : CreateCourse(kind)

CreateStudentRequest ==
    \E n \in NumLessonInputs, m \in TotalMoneyInputs, a \in AttendanceListInputs,
       ids \in SUBSET CourseIdInputs : CreateStudent(n, m, a, ids)

\* for a student that does not exist the body is not looked at
BodiesFor(sid, updates) ==
    IF StudentExists(sid) THEN updates ELSE OneField("num_lesson", {0})

UpdateStudentRequest ==
    \E sid \in StudentIdInputs :
        \E u \in BodiesFor(sid, LedgerUpdates \cup CourseUpdates) : UpdateStudent(sid, u)

CheckAttendanceRequest ==
    \E sid \in StudentIdInputs, d \in Dates, b \in BOOLEAN, r \in Reasons,
       cid \in CourseIdInputs : CheckAttendance(sid, d, b, r, cid)

UpdateAttendanceRequest ==
    \E sid \in StudentIdInputs, d \in Dates, cid \in {NoCourse} \cup CourseIdInputs,
       b \in Optional(BOOLEAN), r \in Optional(Reasons) :
           UpdateAttendance(sid, d, cid, b, r)

DeleteAttendanceRequest ==
    \E sid \in StudentIdInputs, d \in Dates, cid \in {NoCourse} \cup CourseIdInputs :
        DeleteAttendance(sid, d, cid)

EnrollRequest ==
    \E t \in DOMAIN sessions :
        \/ \E sid \in StudentIdInputs, cid \in CourseIdInputs,
              e \in EnrollmentDateInputs : EnrollBegin(t, sid, cid, e)
        \/ EnrollStage(t)
        \/ EnrollCommit(t)

Next ==
    \/ CreateCourseRequest
    \/ CreateStudentRequest
    \/ UpdateStudentRequest
    \/ CheckAttendanceRequest
    \/ UpdateAttendanceRequest
    \/ DeleteAttendanceRequest
    \/ EnrollRequest
    \/ Tick

Spec == Init /\ [][Next]_vars

\* The attendance ledger on its own: the requests that write a student's ledger,
\* lesson count and balance, on a database created through the ORM metadata.
\* Enrollment requests and the clock write none of courses and students.
LedgerInit == Init /\ ~schemaUnique

LedgerNext ==
    \/ CreateCourseRequest
    \/ \E n \in NumLessonInputs, m \in TotalMoneyInputs, a \in AttendanceListInputs :
          CreateStudent(n, m, a, {})
    \/ \E sid \in StudentIdInputs :
          \E u \in BodiesFor(sid, LedgerUpdates) : UpdateStudent(sid, u)
    \/ CheckAttendanceRequest
    \/ UpdateAttendanceRequest
    \/ DeleteAttendanceRequest

LedgerSpec == LedgerInit /\ [][LedgerNext]_vars

\* A student that starts with an empty ledger and lesson count 0, and the three
\* attendance requests.
AttendanceNext ==
    \/ CreateCourseRequest
    \/ \E m \in TotalMoneyInputs : CreateStudent(0, m, << >>, {})
    \/ CheckAttendanceRequest
    \/ UpdateAttendanceRequest
    \/ DeleteAttendanceRequest

AttendanceSpec == LedgerInit /\ [][AttendanceNext]_vars

\* Enrollment with students that are checked in for one lesson at most.  The
\* requests of EnrollNext run one at a time, each to completion (the execution
\* model the service is specified for); RaceNext lets the steps of the requests
\* interleave, as the worker threads of the server do.
EnrollStudents ==
    \/ \E ids \in SUBSET CourseIdInputs : CreateStudent(0, 0, << >>, ids)
    \/ \E sid \in StudentIdInputs :
          \E u \in BodiesFor(sid, CourseUpdates) : UpdateStudent(sid, u)
    \/ \E sid \in StudentIdInputs, b \in BOOLEAN, cid \in CourseIdInputs :
          CheckAttendance(sid, Calendar[1], b, "", cid)

RaceNext ==
    \/ CreateCourseRequest
    \/ EnrollStudents
    \/ EnrollRequest
    \/ Tick

RaceSpec == Init /\ [][RaceNext]_vars

EnrollNext ==
    \/ ActiveSessions = {} /\ CreateCourseRequest
    \/ ActiveSessions = {} /\ EnrollStudents
    \/ ActiveSessions = {} /\ Tick
    \/ \E sid \in StudentIdInputs, cid \in CourseIdInputs, e \in EnrollmentDateInputs :
          EnrollBegin(1, sid, cid, e)
    \/ EnrollStage(1)
    \/ EnrollCommit(1)

EnrollSpec == Init /\ [][EnrollNext]_vars

\* Debt management: payments, lesson additions, the debt summary and course
\* deletion, on students that enroll through requests that run one at a time.
AmountInputs == { 150, 300, 0, -40 }

LessonsCountInputs == { -1, 0, 1 }

DebtEnrollmentDateInputs == { NoDate, DateStr([year |-> 2024, month |-> 11, day |-> 28]) }

DebtRequests ==
    \/ CreateCourseRequest
    \/ \E ids \in SUBSET CourseIdInputs : CreateStudent(0, 0, << >>, ids)
    \/ Tick
    \/ \E sid \in StudentIdInputs, cid \in 1..(MaxCourses + 1), amount \in AmountInputs :
          RecordPayment(sid, cid, amount)
    \/ \E sid \in StudentIdInputs, cid \in CourseIdInputs, n \in LessonsCountInputs :
          AddLessonsToCourse(sid, cid, n)
    \/ \E sid \in StudentIdInputs : CalculateMonthlyDebt(sid)
    \/ \E cid \in 1..(MaxCourses + 1) : DeleteCourse(cid)

DebtNext ==
    \/ ActiveSessions = {} /\ DebtRequests
    \/ \E sid \in StudentIdInputs, cid \in CourseIdInputs,
          e \in DebtEnrollmentDateInputs : EnrollBegin(1, sid, cid, e)
    \/ EnrollStage(1)
    \/ EnrollCommit(1)

DebtSpec == LedgerInit /\ [][DebtNext]_vars

\* User administration: user create and update requests, with courses that are
\* created and deleted.
UserNext ==
    \/ CreateCourseRequest
    \/ \E cid \in CourseIdInputs : DeleteCourse(cid)
    \/ \E role \in Roles, l \in CourseIdLists : CreateUser(role, l)
    \/ \E uid \in 1..(MaxUsers + 1), role \in Optional(Roles),
          l \in Optional(CourseIdLists) : UpdateUser(uid, role, l)

UserSpec == LedgerInit /\ [][UserNext]_vars

\* Editing of a ledger: a student created with a ledger (whose events have no course
\* id and may share a date), check-ins for course 1, and the update and delete
\* requests for every key.
EditNext ==
    \/ CreateCourse([lesson_per_month |-> 4, cost |-> 40])
    \/ \E a \in AttendanceListInputs : CreateStudent(1, 20, a, {})
    \/ \E sid \in StudentIdInputs, d \in Dates, b \in BOOLEAN, cid \in CourseIdInputs :
          CheckAttendance(sid, d, b, "", cid)
    \/ UpdateAttendanceRequest
    \/ DeleteAttendanceRequest

EditSpec == LedgerInit /\ [][EditNext]_vars

\* Check-in requests of two sessions that interleave, for a student created with an
\* empty ledger.
CheckRaceNext ==
    \/ CreateCourse([lesson_per_month |-> 4, cost |-> 40])
    \/ CreateStudent(0, 20, << >>, {})
    \/ \E t \in DOMAIN sessions, sid \in StudentIdInputs, d \in Dates, b \in BOOLEAN,
          cid \in CourseIdInputs : CheckLoad(t, sid, d, b, "", cid)
    \/ \E t \in DOMAIN sessions : CheckCommit(t)

CheckRaceSpec == LedgerInit /\ [][CheckRaceNext]_vars

\* Payments of students that have no attendance events: recorded through the debt
\* endpoint, and created, updated and deleted through the payments endpoints.
PaymentMoneyInputs == { 150, 300 }

PaymentNext ==
    \/ CreateCourseRequest
    \/ CreateStudent(0, 0, << >>, {})
    \/ \E sid \in StudentIdInputs, cid \in 1..(MaxCourses + 1), amount \in PaymentMoneyInputs :
          /\ StudentExists(sid) => students[sid].total_money < Money(MaxBalance)
          /\ RecordPayment(sid, cid, amount)
    \/ \E sid \in StudentIdInputs, cid \in 1..(MaxCourses + 1), money \in PaymentMoneyInputs :
          CreatePayment(sid, cid, money)
    \/ \E payment_id \in 1..(MaxPayments + 1), money \in Optional(PaymentMoneyInputs) :
          UpdatePayment(payment_id, money)
    \/ \E payment_id \in 1..(MaxPayments + 1) : DeletePayment(payment_id)

PaymentSpec == LedgerInit /\ [][PaymentNext]_vars

\* Users of the three roles, students with and without courses, and the requests a
\* teacher may send about a student.
AccessNext ==
    \/ CreateCourseRequest
    \/ \E ids \in SUBSET CourseIdInputs : CreateStudent(0, 20, << >>, ids)
    \/ \E role \in Roles, l \in CourseIdLists : CreateUser(role, l)
    \/ \E uid \in 1..MaxUsers, sid \in StudentIdInputs, b \in BOOLEAN, cid \in CourseIdInputs :
          CheckAttendanceAs(uid, sid, Calendar[1], b, "", cid)
    \/ \E uid \in 1..MaxUsers, sid \in StudentIdInputs : GetStudentAttendanceAs(uid, sid)
    \/ \E uid \in 1..MaxUsers, sid \in StudentIdInputs : ReadStudentAs(uid, sid)

AccessSpec == LedgerInit /\ [][AccessNext]_vars

\* ------------------------------------------------------------ debt summaries
\* The two list summaries only read the tables. They are evaluated over the tables
\* as earlier requests leave them: SummaryStudents students, SummaryCourses courses,
\* any set of enrollments (one per student and course), any list of up to
\* SummaryPayments positive payments.
SummaryEnrollmentDates ==
    << [year |-> 2024, month |-> 11, day |-> 28], Calendar[1] >>

SummaryPairs == (1..SummaryStudents) \X (1..SummaryCourses)

SummaryPair(k) ==
    << ((k - 1) \div SummaryCourses) + 1, ((k - 1) % SummaryCourses) + 1 >>

\* the progress rows of an enrollment choice: 0 is "not enrolled", i > 0 is
\* "enrolled on SummaryEnrollmentDates[i]"
SummaryProgress(choice) ==
    LET n == SummaryStudents * SummaryCourses
        enrolled == SelectSeq([k \in 1..n |-> k], LAMBDA k : choice[SummaryPair(k)] > 0)
    IN [i \in DOMAIN enrolled |->
           [student_id |-> SummaryPair(enrolled[i])[1],
            course_id |-> SummaryPair(enrolled[i])[2],
            enrollment_date |-> SummaryEnrollmentDates[choice[SummaryPair(enrolled[i])]],
            lessons_attended |-> 0]]

SummaryPaymentRows ==
    [student_id : 1..SummaryStudents, course_id : 1..SummaryCourses,
     money : { Money(150), Money(300) }, date : { Calendar[1] }]

SummaryInit ==
    /\ courses \in [1..SummaryCourses -> CourseKinds]
    /\ students = [sid \in 1..SummaryStudents |->
                      [num_lesson |-> 0, total_money |-> 0, attendance |-> << >>]]
    /\ \E choice \in [SummaryPairs -> 0..Len(SummaryEnrollmentDates)] :
          /\ progress = SummaryProgress(choice)
          /\ student_courses = [sid \in 1..SummaryStudents |->
                                   [cid \in 1..SummaryCourses |->
                                       IF choice[<< sid, cid >>] > 0 THEN 1 ELSE 0]]
    /\ payments \in SeqsUpTo(SummaryPaymentRows, SummaryPayments)
    /\ deleted_courses = {}
    /\ users = << >>
    /\ schemaUnique = FALSE
    /\ sessions = [t \in 1..MaxSessions |-> IdleSession]
    /\ today = Calendar[1]
    /\ last = NoRequest
    /\ probe = NoProbe
    /\ calc = IdleCalc

SummaryNext ==
    \/ Tick
    \/ GetMonthlyDebtSummary
    \/ \E cid \in 1..(SummaryCourses + 1) : GetCourseStudentsDebt(cid)

SummarySpec == SummaryInit /\ [][SummaryNext]_vars

\* ---------------------------------------------------------- billing engine
\* the billing functions applied to an enrollment date, while the clock reads today
CalcYears == { 2024, 2025 }

DaysIn(month) ==
    IF month = 2 THEN 28 ELSE IF month \in {4, 6, 9, 11} THEN 30 ELSE 31

CalcDates ==
    { d \in [year : CalcYears, month : 1..12, day : {1, 28, 31}] :
        d.day <= DaysIn(d.month) }

BillingInit ==
    /\ courses = << >>
    /\ students = << >>
    /\ student_courses = [s \in 1..MaxStudents |-> [c \in 1..MaxCourses |-> 0]]
    /\ progress = << >>
    /\ payments = << >>
    /\ deleted_courses = {}
    /\ users = << >>
    /\ schemaUnique = FALSE
    /\ sessions = [t \in 1..MaxSessions |-> IdleSession]
    /\ today = Calendar[1]
    /\ last = NoRequest
    /\ probe = NoProbe
    /\ calc \in [done : {FALSE}, enrollment_date : CalcDates, today : CalcDates,
                 months : {0}, course : CourseKinds, billed : {FALSE}, owed : {0},
                 advanced : {FALSE}, prev_owed : {0}]

CalculateMonths ==
    /\ ~calc.done
    /\ calc' = [calc EXCEPT
                   !.months = CalculateMonthsEnrolled(calc.enrollment_date, calc.today),
                   !.done = TRUE]
    /\ UNCHANGED << dbVars, schemaUnique, sessions, today, last, probe >>

CalculateOwed ==
    /\ ~calc.billed
    /\ calc' = [calc EXCEPT
                   !.owed = CalculateOwedAmount(calc.course, calc.enrollment_date,
                                                calc.today),
                   !.billed = TRUE]
    /\ UNCHANGED << dbVars, schemaUnique, sessions, today, last, probe >>

DateOrdinal(d) == (d.year * 12 + d.month) * 31 + d.day

\* date.today() moves on between two evaluations of the same enrollment; the amount
\* of the earlier evaluation is kept for comparison
AdvanceToday ==
    /\ calc.done /\ calc.billed
    /\ \E d \in CalcDates :
          /\ DateOrdinal(calc.today) < DateOrdinal(d)
          /\ calc' = [calc EXCEPT !.today = d, !.done = FALSE, !.months = 0,
                                  !.billed = FALSE, !.owed = 0,
                                  !.advanced = TRUE, !.prev_owed = calc.owed]
    /\ UNCHANGED << dbVars, schemaUnique, sessions, today, last, probe >>

BillingNext == CalculateMonths \/ CalculateOwed \/ AdvanceToday

BillingSpec == BillingInit /\ [][BillingNext]_vars

\* ================================================================== claims
ProbedStudent == students[probe.student_id]

\* the ledger event a check-in writes
ProbedEvent ==
    [date |-> DateStr(probe.date), course_id |-> probe.course_id,
     isAbsent |-> probe.isAbsent, reason |-> probe.reason]

PresentCount(attendance) ==
    Cardinality({ i \in DOMAIN attendance : ~attendance[i].isAbsent })

\* C1: a present check-in for a key that is not in the ledger, for a course that
\* exists, appends exactly one event, raises the lesson count by 1 and lowers the
\* balance by cost / lesson_per_month of the course.
C1_NewPresentCheckIn ==
    (probe.stage = "new_present" /\ CourseExists(probe.course_id))
        => /\ ProbedStudent.attendance = Append(probe.before.attendance, ProbedEvent)
           /\ ProbedStudent.num_lesson = probe.before.num_lesson + 1
           /\ (probe.before.total_money - ProbedStudent.total_money)
                  * courses[probe.course_id].lesson_per_month
              = Money(courses[probe.course_id].cost)

C1_Witness ==
    /\ probe.stage = "new_present"
    /\ CourseExists(probe.course_id)
    /\ last = Response("check_attendance", HTTP_200_OK)
    /\ probe.before.attendance # << >>

\* C2: marking a present event absent and then present again leaves the balance as
\* it was before the two check-ins, and the lesson count too, unless the count was
\* 0 and the decrement was floored: then it ends at 1.
C2_RoundTrip ==
    probe.stage = "round_trip"
        => /\ ProbedStudent.total_money = probe.origin.total_money
           /\ ProbedStudent.num_lesson =
                  IF probe.origin.num_lesson = 0 THEN 1 ELSE probe.origin.num_lesson

C2_Witness ==
    /\ probe.stage = "round_trip"
    /\ CourseExists(probe.course_id)
    /\ probe.origin.num_lesson >= 1
    /\ probe.before.total_money # probe.origin.total_money

\* C3: a check-in that repeats the one before it (same student, date, course and
\* is_absent) leaves ledger length, lesson count and balance as they were and
\* changes at most the reason of that one event.
C3_RepeatedCheckIn ==
    probe.stage = "repeat"
        => LET was == probe.before.attendance
               now == ProbedStudent.attendance
               hit == FindRecord(was, DateStr(probe.date), probe.course_id)
           IN /\ Len(now) = Len(was)
              /\ ProbedStudent.num_lesson = probe.before.num_lesson
              /\ ProbedStudent.total_money = probe.before.total_money
              /\ \A i \in DOMAIN was :
                    /\ now[i] = [was[i] EXCEPT !.reason = now[i].reason]
                    /\ i # hit => now[i] = was[i]

C3_Witness ==
    /\ probe.stage = "repeat"
    /\ ~probe.isAbsent
    /\ CourseExists(probe.course_id)
    /\ ProbedStudent.attendance # probe.before.attendance

\* C4: for a student that starts with an empty ledger and lesson count 0, after
\* any sequence of check-ins, attendance updates and attendance deletes the lesson
\* count is the number of present events in the ledger.
C4_LessonCountMatchesLedger ==
    \A sid \in DOMAIN students :
        students[sid].num_lesson = PresentCount(students[sid].attendance)

\* C5: a student's ledger holds at most one event per (date, course_id) key.
C5_OneEventPerKey ==
    \A sid \in DOMAIN students :
        \A i, j \in DOMAIN students[sid].attendance :
            (/\ students[sid].attendance[i].date = students[sid].attendance[j].date
             /\ students[sid].attendance[i].course_id
                    = students[sid].attendance[j].course_id)
                => i = j

\* C6: a check-in for a student id that does not exist is answered 404 Not Found
\* and changes no student, membership or enrollment row.
C6_UnknownStudentNotFound ==
    [][ \A sid \in StudentIdInputs, d \in Dates, b \in BOOLEAN, r \in Reasons,
           cid \in CourseIdInputs :
            (~StudentExists(sid) /\ CheckAttendance(sid, d, b, r, cid))
                => /\ last' = Response("check_attendance", HTTP_404_NOT_FOUND)
                   /\ UNCHANGED dbVars ]_vars

C6_Witness ==
    /\ last = Response("check_attendance", HTTP_404_NOT_FOUND)
    /\ students # << >>
    /\ progress # << >>
    /\ \E sid \in DOMAIN students : students[sid].attendance # << >>

\* C7: there is at most one enrollment per (student, course) pair, also when two
\* enroll requests for the pair interleave.
C7_OneEnrollmentPerPair ==
    \A sid \in StudentIdInputs, cid \in CourseIdInputs :
        Cardinality(Enrollments(sid, cid)) <= 1

\* C8: enrolling a student in a course the student is enrolled in already is
\* answered 409 Conflict and changes no enrollment and no membership row.
C8_SecondEnrollmentConflict ==
    [][ \A t \in DOMAIN sessions, sid \in StudentIdInputs, cid \in CourseIdInputs,
           e \in EnrollmentDateInputs :
            (/\ StudentExists(sid)
             /\ CourseExists(cid)
             /\ Enrollments(sid, cid) # {}
             /\ EnrollBegin(t, sid, cid, e))
                => /\ last' = Response("enroll_student_in_course", HTTP_409_CONFLICT)
                   /\ UNCHANGED << progress, student_courses >> ]_vars

\* C9: enrolling an existing student in an existing course without a prior
\* enrollment adds exactly one enrollment row, with lessons_attended = 0 and the
\* given date (today when none is given), and leaves the course exactly once in the
\* student's courses; when the student or the course does not exist the request is
\* answered 404 Not Found and changes nothing.
C9_EnrollmentCreation ==
    [][ /\ \A t \in DOMAIN sessions, sid \in StudentIdInputs, cid \in CourseIdInputs,
              e \in EnrollmentDateInputs :
               EnrollBegin(t, sid, cid, e)
                   => IF StudentExists(sid) /\ CourseExists(cid)
                      THEN Enrollments(sid, cid) = {}
                               => /\ sessions'[t].pc = "checked"
                                  /\ sessions'[t].student_id = sid
                                  /\ sessions'[t].course_id = cid
                                  /\ IF e = NoDate
                                     THEN sessions'[t].enrollment_date = today
                                     ELSE DateStr(sessions'[t].enrollment_date) = e
                                  /\ UNCHANGED dbVars
                      ELSE /\ last' = Response("enroll_student_in_course",
                                               HTTP_404_NOT_FOUND)
                           /\ UNCHANGED << dbVars, sessions >>
        /\ \A t \in DOMAIN sessions :
               EnrollStage(t)
                   => /\ sessions'[t].student_id = sessions[t].student_id
                      /\ sessions'[t].course_id = sessions[t].course_id
                      /\ sessions'[t].enrollment_date = sessions[t].enrollment_date
                      /\ UNCHANGED dbVars
        /\ \A t \in DOMAIN sessions :
               EnrollCommit(t)
                   => LET sid == sessions[t].student_id
                          cid == sessions[t].course_id
                      IN /\ last' = Response("enroll_student_in_course", HTTP_200_OK)
                         /\ progress' =
                                Append(progress,
                                       [student_id |-> sid, course_id |-> cid,
                                        enrollment_date |-> sessions[t].enrollment_date,
                                        lessons_attended |-> 0])
                         /\ Cardinality({ i \in DOMAIN progress' :
                                            /\ progress'[i].student_id = sid
                                            /\ progress'[i].course_id = cid }) = 1
                         /\ student_courses'[sid][cid] = 1
                         /\ UNCHANGED << students, courses >> ]_vars

C9_Witness ==
    /\ last = Response("enroll_student_in_course", HTTP_200_OK)
    /\ Len(progress) = 1
    /\ progress[1].lessons_attended = 0
    /\ progress[1].enrollment_date # today
    /\ student_courses[progress[1].student_id][progress[1].course_id] = 1

MonthIndex(d) == d.year * 12 + d.month

\* C10: months_enrolled(E, T) is the difference of the calendar months of T and E,
\* at least 1, whatever the days of the month and also when T is before E; it is 1
\* when E and T are in the same calendar month.
C10_MonthsEnrolled ==
    calc.done
        => LET diff == MonthIndex(calc.today) - MonthIndex(calc.enrollment_date)
           IN /\ calc.months = IF diff < 1 THEN 1 ELSE diff
              /\ (/\ calc.today.year = calc.enrollment_date.year
                  /\ calc.today.month = calc.enrollment_date.month)
                     => calc.months = 1

C10_Witness ==
    /\ calc.done
    /\ calc.today.year < calc.enrollment_date.year
    /\ calc.today.day # calc.enrollment_date.day
    /\ calc.months = 1

\* C11 (as amended): for an enrollment dated January 31 evaluated on February 1 of
\* the same year, months_enrolled is 1.
C11_JanuaryToFebruary ==
    (/\ calc.done
     /\ calc.enrollment_date.month = 1 /\ calc.enrollment_date.day = 31
     /\ calc.today.month = 2 /\ calc.today.day = 1
     /\ calc.today.year = calc.enrollment_date.year)
        => calc.months = 1

\* C11 as stated: for an enrollment dated January 31 evaluated on February 1 of the
\* same year, months_enrolled is 2.
C11_JanuaryToFebruaryIsTwo ==
    (/\ calc.done
     /\ calc.enrollment_date.month = 1 /\ calc.enrollment_date.day = 31
     /\ calc.today.month = 2 /\ calc.today.day = 1
     /\ calc.today.year = calc.enrollment_date.year)
        => calc.months = 2

C11_Witness ==
    /\ calc.done
    /\ calc.enrollment_date = [year |-> 2025, month |-> 1, day |-> 31]
    /\ calc.today = [year |-> 2025, month |-> 2, day |-> 1]

\* C12: the amount owed for an enrollment is the course's monthly cost times
\* months_enrolled(enrollment_date, today), and it does not decrease when today
\* advances, also across a year boundary and while today is before the enrollment.
C12_OwedAmountMonotone ==
    calc.billed
        => LET diff == MonthIndex(calc.today) - MonthIndex(calc.enrollment_date)
           IN /\ calc.owed = Money(calc.course.cost) * (IF diff < 1 THEN 1 ELSE diff)
              /\ calc.advanced => calc.prev_owed <= calc.owed

C12_Witness ==
    /\ calc.billed
    /\ calc.advanced
    /\ calc.prev_owed < calc.owed
    /\ calc.enrollment_date.year < calc.today.year

RECURSIVE SumOver(_, _)
SumOver(S, f) ==
    IF S = {} THEN 0
    ELSE LET x == CHOOSE y \in S : TRUE IN f[x] + SumOver(S \ {x}, f)

C14_PaymentRecording ==
    [][ \A sid \in StudentIdInputs, cid \in 1..(MaxCourses + 1), amount \in AmountInputs :
            RecordPayment(sid, cid, amount)
                => IF StudentExists(sid) /\ CourseExists(cid)
                   THEN /\ Len(payments') = Len(payments) + 1
                        /\ SubSeq(payments', 1, Len(payments)) = payments
                        /\ payments'[Len(payments')].student_id = sid
                        /\ payments'[Len(payments')].course_id = cid
                        /\ payments'[Len(payments')].money = Money(amount)
                        /\ students' = [students EXCEPT ![sid].total_money =
                                           students[sid].total_money + Money(amount)]
                   ELSE /\ last' = Response("record_payment", HTTP_404_NOT_FOUND)
                        /\ UNCHANGED << payments, students >> ]_vars

C14_Witness ==
    /\ last = Response("record_payment", HTTP_200_OK)
    /\ Len(payments) = 2
    /\ payments[2].money = Money(300)
    /\ students[payments[2].student_id].total_money = Money(450)

\* C15: adding lessons for an enrolled (student, course) pair adds lessons_count to
\* the enrollment's lessons_attended and to the student's num_lesson and leaves the
\* student's balance, ledger and payments unchanged; with no enrollment for the pair
\* the request is answered 404 Not Found and changes nothing.
C15_LessonAddition ==
    [][ \A sid \in StudentIdInputs, cid \in CourseIdInputs, n \in LessonsCountInputs :
            AddLessonsToCourse(sid, cid, n)
                => IF Enrollments(sid, cid) = {}
                   THEN /\ last' = Response("add_lessons_to_course", HTTP_404_NOT_FOUND)
                        /\ UNCHANGED dbVars
                   ELSE /\ progress' =
                               [i \in DOMAIN progress |->
                                   IF progress[i].student_id = sid
                                          /\ progress[i].course_id = cid
                                   THEN [progress[i] EXCEPT !.lessons_attended = @ + n]
                                   ELSE progress[i]]
                        /\ students' = [students EXCEPT ![sid].num_lesson = @ + n]
                        /\ UNCHANGED payments ]_vars

C15_Witness ==
    /\ last = Response("add_lessons_to_course", HTTP_200_OK)
    /\ payments # << >>
    /\ \E i \in DOMAIN progress :
          /\ progress[i].lessons_attended = 1
          /\ students[progress[i].student_id].num_lesson = 1
          /\ students[progress[i].student_id].total_money # 0

\* C16: a present check-in for a new (date, course_id) key, for an existing course
\* in which the student is enrolled, increments that enrollment's lessons_attended
\* by 1.
C16_EnrollmentLessonCounted ==
    [][ \A sid \in StudentIdInputs, d \in Dates, r \in Reasons, cid \in CourseIdInputs :
            (/\ StudentExists(sid)
             /\ CourseExists(cid)
             /\ Enrollments(sid, cid) # {}
             /\ FindRecord(students[sid].attendance, DateStr(d), cid) = 0
             /\ CheckAttendance(sid, d, FALSE, r, cid))
                => \A i \in Enrollments(sid, cid) :
                       progress'[i].lessons_attended = progress[i].lessons_attended + 1
      ]_vars

\* C19: every enrollment and every payment references an existing student and an
\* existing course, also after a course was deleted: deleting a course removes the
\* enrollments and payments that reference it.
C19_EnrollmentsHaveParents ==
    /\ \A i \in DOMAIN progress :
          StudentExists(progress[i].student_id) /\ CourseExists(progress[i].course_id)
    /\ \A i \in DOMAIN payments :
          StudentExists(payments[i].student_id) /\ CourseExists(payments[i].course_id)

\* a course was deleted after a student had lessons added to an enrollment (so was
\* enrolled) and had paid
C19_Witness ==
    /\ last = Response("delete_course", HTTP_204_NO_CONTENT)
    /\ deleted_courses # {}
    /\ \E sid \in DOMAIN students :
          students[sid].num_lesson > 0 /\ students[sid].total_money > 0
    /\ \A i \in DOMAIN progress : progress[i].course_id \notin deleted_courses
    /\ \A i \in DOMAIN payments : payments[i].course_id \notin deleted_courses

\* C20: recording a payment with amount <= 0 and adding lessons with lessons_count
\* <= 0 are rejected, and the rejected request creates no payment and leaves the
\* student's balance and lesson count and the enrollment's lessons_attended
\* unchanged.
C20_NonPositiveRejected ==
    [][ /\ \A sid \in StudentIdInputs, cid \in CourseIdInputs, amount \in AmountInputs :
               (/\ amount <= 0
                /\ StudentExists(sid)
                /\ CourseExists(cid)
                /\ RecordPayment(sid, cid, amount))
                   => /\ last'.status # HTTP_200_OK
                      /\ UNCHANGED << payments, students, progress >>
        /\ \A sid \in StudentIdInputs, cid \in CourseIdInputs, n \in LessonsCountInputs :
               (/\ n <= 0
                /\ Enrollments(sid, cid) # {}
                /\ AddLessonsToCourse(sid, cid, n))
                   => /\ last'.status # HTTP_200_OK
                      /\ UNCHANGED << payments, students, progress >> ]_vars

C17_DeleteThenReAdd ==
    (probe.stage \notin {"none", "deleted"} /\ probe.readded)
        => LET old == probe.origin.attendance
               new == ProbedStudent.attendance
               k == FindRecord(old, DateStr(probe.date), probe.course_id)
           IN /\ { new[i] : i \in DOMAIN new } = { old[i] : i \in DOMAIN old }
              /\ Len(new) = Len(old)
              /\ new = Append(SubSeq(old, 1, k - 1) \o SubSeq(old, k + 1, Len(old)), old[k])

\* the event was first of two before the delete and is last now
C17_Witness ==
    /\ probe.stage \notin {"none", "deleted"}
    /\ probe.readded
    /\ last = Response("check_attendance", HTTP_200_OK)
    /\ Len(probe.origin.attendance) = 2
    /\ FindRecord(probe.origin.attendance, DateStr(probe.date), probe.course_id) = 1
    /\ probe.reason = "sick"

\* C21: in the monthly summary of all students each student's debt is
\* |total_paid - owed| when total_paid - owed is negative and 0 otherwise,
\* total_debt_all_students is the sum of these debts (so it is never less than any
\* one student's debt: an overpayment of one student does not reduce it), and
\* students_with_debt is the number of students whose debt is above 0.
C21_MonthlySummary ==
    last.op = "get_monthly_debt_summary"
        => LET b == last.body
               S == DOMAIN students
               E(sid) == { i \in DOMAIN progress : progress[i].student_id = sid }
               P(sid) == { i \in DOMAIN payments : payments[i].student_id = sid }
               diff(i) == MonthIndex(today) - MonthIndex(progress[i].enrollment_date)
               owed(sid) == SumOver(E(sid), [i \in E(sid) |->
                               Money(courses[progress[i].course_id].cost)
                                   * (IF diff(i) < 1 THEN 1 ELSE diff(i))])
               paid(sid) == SumOver(P(sid), [i \in P(sid) |-> payments[i].money])
               debt == [sid \in S |-> IF paid(sid) - owed(sid) < 0
                                      THEN owed(sid) - paid(sid) ELSE 0]
           IN /\ DOMAIN b.students = S
              /\ \A sid \in S : b.students[sid].debt = debt[sid]
              /\ b.total_debt_all_students = SumOver(S, debt)
              /\ \A sid \in S : b.total_debt_all_students >= debt[sid]
              /\ b.students_with_debt = Cardinality({ sid \in S : debt[sid] > 0 })

\* one student has overpaid and the other is in debt: the total is the debt of the
\* second student alone
C21_Witness ==
    /\ last.op = "get_monthly_debt_summary"
    /\ \E s1, s2 \in DOMAIN students :
          /\ last.body.students[s1].balance > 0
          /\ last.body.students[s2].debt > 0
          /\ last.body.total_debt_all_students = last.body.students[s2].debt
          /\ last.body.students_with_debt = 1

\* C22: in the per-course summary of a course each enrolled student's balance is the
\* sum of that student's payments with this course id minus the owed amount of the
\* student's enrollment in the course, whatever the student paid for other courses,
\* and total_course_debt is the sum of the per-student debts.
C22_CourseSummary ==
    (last.op = "get_course_students_debt" /\ last.status = HTTP_200_OK)
        => LET b == last.body
               cid == b.course_id
               E == { i \in DOMAIN progress : progress[i].course_id = cid }
               P(sid) == { i \in DOMAIN payments : /\ payments[i].student_id = sid
                                                   /\ payments[i].course_id = cid }
               diff(i) == MonthIndex(today) - MonthIndex(progress[i].enrollment_date)
               owed(i) == Money(courses[cid].cost) * (IF diff(i) < 1 THEN 1 ELSE diff(i))
               paid(sid) == SumOver(P(sid), [i \in P(sid) |-> payments[i].money])
               balance == [i \in E |-> paid(progress[i].student_id) - owed(i)]
               debt == [i \in E |-> IF balance[i] < 0 THEN 0 - balance[i] ELSE 0]
               K == DOMAIN b.students
           IN /\ Cardinality(E) = Len(b.students)
              /\ \A i \in E : \E k \in K :
                    /\ b.students[k].student_id = progress[i].student_id
                    /\ b.students[k].balance = balance[i]
                    /\ b.students[k].debt = debt[i]
              /\ b.total_course_debt = SumOver(E, debt)
              /\ b.total_course_debt = SumOver(K, [k \in K |-> b.students[k].debt])

\* a student of the course who paid only for another course is in debt for the whole
\* owed amount
C22_Witness ==
    /\ last.op = "get_course_students_debt"
    /\ last.status = HTTP_200_OK
    /\ \E k \in DOMAIN last.body.students :
          /\ last.body.students[k].course_payments = 0
          /\ last.body.students[k].debt = last.body.students[k].course_owed
          /\ \E i \in DOMAIN payments :
                /\ payments[i].student_id = last.body.students[k].student_id
                /\ payments[i].course_id # last.body.course_id
    /\ Len(last.body.students) = SummaryStudents

\* C23: a check-in whose course id matches no course still succeeds and updates the
\* ledger, changes the lesson count according to the presence transition and leaves
\* the balance as it was; the same holds for Student.add_attendance_record called
\* with no course id on any stored student.
C23_NoCourseCheckIn ==
    /\ (probe.stage \notin {"none", "deleted"} /\ ~CourseExists(probe.course_id))
          => LET before == probe.before
                 after == ProbedStudent
                 i == FindRecord(before.attendance, DateStr(probe.date), probe.course_id)
             IN /\ last = Response("check_attendance", HTTP_200_OK)
                /\ after.attendance =
                       IF i = 0 THEN Append(before.attendance, ProbedEvent)
                       ELSE [before.attendance EXCEPT ![i] = ProbedEvent]
                /\ after.total_money = before.total_money
                /\ after.num_lesson =
                       IF probe.stage \in {"new_present", "to_present", "round_trip"}
                       THEN before.num_lesson + 1
                       ELSE IF probe.stage = "to_absent"
                       THEN Max(0, before.num_lesson - 1)
                       ELSE before.num_lesson
    /\ \A sid \in DOMAIN students, d \in Dates, b \in BOOLEAN :
          LET before == students[sid]
              after == AddAttendanceRecord(before, d, b, "", NoCourse)
              i == FindRecord(before.attendance, DateStr(d), NoCourse)
              event == [date |-> DateStr(d), course_id |-> NoCourse,
                        isAbsent |-> b, reason |-> ""]
          IN /\ after.total_money = before.total_money
             /\ after.attendance = IF i = 0 THEN Append(before.attendance, event)
                                   ELSE [before.attendance EXCEPT ![i] = event]
             /\ after.num_lesson =
                    IF ~b /\ (i = 0 \/ before.attendance[i].isAbsent)
                    THEN before.num_lesson + 1
                    ELSE IF b /\ i # 0 /\ ~before.attendance[i].isAbsent
                    THEN Max(0, before.num_lesson - 1)
                    ELSE before.num_lesson

\* a present event of a course that does not exist was marked absent: the lesson is
\* taken back and the balance stays
C23_Witness ==
    /\ probe.stage = "to_absent"
    /\ ~CourseExists(probe.course_id)
    /\ last = Response("check_attendance", HTTP_200_OK)
    /\ ProbedStudent.num_lesson = probe.before.num_lesson - 1
    /\ ProbedStudent.total_money = probe.before.total_money
    /\ ProbedStudent.total_money > 0

\* C24: an attendance update changes only the provided fields (is_absent, reason) of
\* one event with the given (date, course_id) key and leaves every other event, the
\* order of the ledger, the lesson count and the balance unchanged, also when
\* is_absent flips; with no event of that key it is answered 404 Not Found and
\* changes nothing.
C24_AttendanceUpdate ==
    [][ last'.op = "update_attendance"
        => \A sid \in StudentIdInputs, d \in Dates, cid \in {NoCourse} \cup CourseIdInputs,
              b \in Optional(BOOLEAN), r \in Optional(Reasons) :
                UpdateAttendance(sid, d, cid, b, r)
                    => LET old == students[sid].attendance
                           new == students'[sid].attendance
                           hits == IF StudentExists(sid)
                                   THEN { i \in DOMAIN old : /\ old[i].date = DateStr(d)
                                                             /\ old[i].course_id = cid }
                                   ELSE {}
                       IN IF hits = {}
                          THEN /\ last' = Response("update_attendance", HTTP_404_NOT_FOUND)
                               /\ UNCHANGED dbVars
                          ELSE /\ last' = Response("update_attendance", HTTP_200_OK)
                               /\ UNCHANGED << courses, student_courses, progress,
                                               otherTables >>
                               /\ DOMAIN students' = DOMAIN students
                               /\ \A other \in DOMAIN students \ {sid} :
                                     students'[other] = students[other]
                               /\ students'[sid].num_lesson = students[sid].num_lesson
                               /\ students'[sid].total_money = students[sid].total_money
                               /\ Len(new) = Len(old)
                               /\ \E i \in hits :
                                     /\ \A j \in DOMAIN old \ {i} : new[j] = old[j]
                                     /\ new[i].date = old[i].date
                                     /\ new[i].course_id = old[i].course_id
                                     /\ new[i].isAbsent = IF b = {} THEN old[i].isAbsent
                                                          ELSE CHOOSE x \in b : TRUE
                                     /\ new[i].reason = IF r = {} THEN old[i].reason
                                                        ELSE CHOOSE x \in r : TRUE ]_vars

\* a present check-in for course 1 was charged and counted, and the event was then
\* updated to absent with a reason: the lesson is still counted, the charge stays,
\* and the other event of the ledger is as it was
C24_Witness ==
    /\ last = Response("update_attendance", HTTP_200_OK)
    /\ \E sid \in DOMAIN students :
          /\ Len(students[sid].attendance) = 2
          /\ students[sid].attendance[1].course_id = NoCourse
          /\ students[sid].attendance[2].course_id # NoCourse
          /\ students[sid].attendance[2].isAbsent
          /\ students[sid].attendance[2].reason = "sick"
          /\ students[sid].num_lesson = 2
          /\ students[sid].total_money < Money(20)

\* C25: an attendance delete removes the event with the given (date, course_id) key,
\* keeps the other events in their order and leaves the lesson count and the balance
\* unchanged; with no event of that key it is answered 404 Not Found and the ledger
\* is unchanged.
C25_AttendanceDelete ==
    [][ last'.op = "delete_attendance"
        => \A sid \in StudentIdInputs, d \in Dates, cid \in {NoCourse} \cup CourseIdInputs :
                DeleteAttendance(sid, d, cid)
                    => LET old == students[sid].attendance
                           new == students'[sid].attendance
                           hits == IF StudentExists(sid)
                                   THEN { i \in DOMAIN old : /\ old[i].date = DateStr(d)
                                                             /\ old[i].course_id = cid }
                                   ELSE {}
                           rest == DOMAIN old \ hits
                       IN IF hits = {}
                          THEN /\ last' = Response("delete_attendance", HTTP_404_NOT_FOUND)
                               /\ UNCHANGED dbVars
                          ELSE /\ last' = Response("delete_attendance", HTTP_200_OK)
                               /\ UNCHANGED << courses, student_courses, progress,
                                               otherTables >>
                               /\ DOMAIN students' = DOMAIN students
                               /\ \A other \in DOMAIN students \ {sid} :
                                     students'[other] = students[other]
                               /\ students'[sid].num_lesson = students[sid].num_lesson
                               /\ students'[sid].total_money = students[sid].total_money
                               /\ Len(new) = Cardinality(rest)
                               /\ \A i \in rest :
                                     new[Cardinality({ j \in rest : j <= i })] = old[i] ]_vars

\* the first of two events, a charged present one, was deleted: the lesson is still
\* counted and the charge stays
C25_Witness ==
    /\ last = Response("delete_attendance", HTTP_200_OK)
    /\ probe.stage = "deleted"
    /\ ~probe.isAbsent
    /\ probe.course_id # NoCourse
    /\ Len(probe.before.attendance) = 2
    /\ probe.before.attendance[1].course_id = probe.course_id
    /\ ProbedStudent.attendance = << probe.before.attendance[2] >>
    /\ ProbedStudent.num_lesson = 2
    /\ ProbedStudent.total_money < Money(20)

\* C26: when two check-in requests for one student both load the row before either
\* commits, the stored ledger, lesson count and balance after the second commit are
\* those the last committer computed from the row it loaded: the first committer's
\* change is lost.
C26_LastWriteWins ==
    probe.stage = "stale_commit"
        => /\ ProbedStudent.attendance = probe.computed.attendance
           /\ ProbedStudent.num_lesson = probe.computed.num_lesson
           /\ ProbedStudent.total_money = probe.computed.total_money

\* C27: a delete request for a course id that does not exist is answered 404 Not
\* Found and changes no stored entity (api/users.py and api/students.py handle a
\* missing user or student with the same try / except as api/courses.py).
C27_MissingDeleteNotFound ==
    [][ \A cid \in 1..(MaxCourses + 1) :
            (~CourseExists(cid) /\ DeleteCourse(cid))
                => /\ last' = Response("delete_course", HTTP_404_NOT_FOUND)
                   /\ UNCHANGED dbVars ]_vars

\* C28: for a student with no attendance events (created with balance 0), after any
\* sequence of payment operations (recording through the debt endpoint; create,
\* update and delete through the payments endpoints) the stored running balance is
\* the sum of the student's Payment amounts.
C28_PaymentTotalsInLockstep ==
    \A sid \in DOMAIN students :
        students[sid].attendance = << >>
            => LET P == { i \in DOMAIN payments : payments[i].student_id = sid }
               IN students[sid].total_money = SumOver(P, [i \in P |-> payments[i].money])

\* C29: in every reachable state every student's lesson count and every
\* enrollment's lessons_attended are at least 0.
C29_CountsNonNegative ==
    /\ \A sid \in DOMAIN students : students[sid].num_lesson >= 0
    /\ \A i \in DOMAIN progress : progress[i].lessons_attended >= 0

\* C30: a teacher's check-in for a student, or listing of the student's ledger, is
\* served only if the student is in at least one course of the teacher's assigned
\* course ids; otherwise it is refused (403 Forbidden) and no student changes.
C30_TeacherScope ==
    [][ \A uid \in DOMAIN users, sid \in DOMAIN students :
            (/\ users[uid].role = "teacher"
             /\ StudentCourseIds(sid) \cap TeacherCourseIds(uid) = {})
                => /\ \A b \in BOOLEAN, cid \in CourseIdInputs :
                         CheckAttendanceAs(uid, sid, Calendar[1], b, "", cid)
                             => /\ last'.status = HTTP_403_FORBIDDEN
                                /\ UNCHANGED students
                   /\ GetStudentAttendanceAs(uid, sid)
                         => last'.status = HTTP_403_FORBIDDEN ]_vars

====
